---------------------------- MODULE Spec2Model ----------------------------
(***************************************************************************)
(* Model of src/servicenow-notes/src/ServiceNowNoteGenerator.tsx.          *)
(*                                                                         *)
(* A JavaScript string is a sequence of characters; a character is a       *)
(* one-character TLA+ string, and a character outside ASCII is a named     *)
(* element (EAcute, EnDash, ...), so that lengths count UTF-16 units as    *)
(* String.prototype.length and slice do.                                   *)
(***************************************************************************)
EXTENDS Integers, Sequences, FiniteSets, TLC

VARIABLES input, parsed, fr, provider, endpoint, loading,
          frTitle, frDesc, frWork, frUser, run, src, now, stage, used

vars == <<input, parsed, fr, provider, endpoint, loading,
          frTitle, frDesc, frWork, frUser, run, src, now, stage, used>>

-----------------------------------------------------------------------------
(* Characters and strings *)

EAcute == "U+00E9"
EAcuteCap == "U+00C9"
AGrave == "U+00E0"
OCirc == "U+00F4"
EnDash == "U+2013"
Bullet == "U+2022"
LeftWhiteBracket == "U+27E6"
RightWhiteBracket == "U+27E7"

NonAscii == {EAcute, EAcuteCap, AGrave, OCirc, EnDash, Bullet,
             LeftWhiteBracket, RightWhiteBracket}

\* The characters of an ASCII string literal.
S(str) == [i \in 1..Len(str) |-> SubSeq(str, i, i)]

RECURSIVE T(_)
\* A literal written in pieces: ASCII runs and named characters.
T(pieces) ==
  IF pieces = <<>> THEN <<>>
  ELSE (IF Head(pieces) \in NonAscii THEN <<Head(pieces)>> ELSE S(Head(pieces)))
       \o T(Tail(pieces))

\* JavaScript's undefined (also what  null?.[1]  evaluates to).
Undefined == <<"undefined">>

\* The value is truthy: neither undefined/null nor the empty string.
Truthy(v) == v # Undefined /\ v # <<>>

UpperAlpha == S("ABCDEFGHIJKLMNOPQRSTUVWXYZ")
LowerAlpha == S("abcdefghijklmnopqrstuvwxyz")
DigitChars == {"0", "1", "2", "3", "4", "5", "6", "7", "8", "9"}
UpperSet == {UpperAlpha[i] : i \in 1..26}
LowerSet == {LowerAlpha[i] : i \in 1..26}
LowerOf == [c \in UpperSet |-> LowerAlpha[CHOOSE i \in 1..26 : UpperAlpha[i] = c]]

\* String.prototype.toLowerCase on one character (ASCII letters; the named
\* characters used here are their own lower case except EAcuteCap).
toLowerCase(c) ==
  IF c \in UpperSet THEN LowerOf[c]
  ELSE IF c = EAcuteCap THEN EAcute ELSE c

\* \s of a regular expression, and the characters trim() removes.
WhiteSpace == {" ", "\t", "\n", "\r", "\f"}
IsSpace(c) == c \in WhiteSpace

\* \w of a regular expression (no u flag): [A-Za-z0-9_].
IsWordChar(c) == c \in UpperSet \/ c \in LowerSet \/ c \in DigitChars \/ c = "_"

Min(set) == CHOOSE x \in set : \A y \in set : x <= y
Max(set) == CHOOSE x \in set : \A y \in set : y <= x

\* The index after the longest run of \s that starts at i  (greedy \s*).
SkipSpace(s, i) ==
  IF i > Len(s) THEN i
  ELSE Min({k \in i..(Len(s) + 1) : k > Len(s) \/ ~IsSpace(s[k])})

\* The index of the last character that is not \s at or before i, or 0.
SkipSpaceBack(s, i) == Max({k \in 0..i : k = 0 \/ ~IsSpace(s[k])})

\* String.prototype.trim
Trim(s) ==
  LET a == SkipSpace(s, 1)
      b == SkipSpaceBack(s, Len(s))
  IN IF a > b THEN <<>> ELSE SubSeq(s, a, b)

\* The index of the last character of the run of [^\n] that starts at i.
EndOfLine(s, i) == Min({k \in i..Len(s) : k = Len(s) \/ s[k + 1] = "\n"})

\* The literal lit (lower case) matches s at i, ignoring case (flag i).
StartsWithCI(s, i, lit) ==
  /\ i + Len(lit) - 1 <= Len(s)
  /\ \A k \in 1..Len(lit) : toLowerCase(s[i + k - 1]) = lit[k]

RECURSIVE Join(_, _)
\* Array.prototype.join
Join(parts, sep) ==
  IF parts = <<>> THEN <<>>
  ELSE IF Len(parts) = 1 THEN parts[1]
  ELSE parts[1] \o sep \o Join(Tail(parts), sep)

\* Array.prototype.filter(Boolean) on an array of strings and nulls.
FilterBoolean(parts) == SelectSeq(parts, Truthy)

\* String.prototype.slice(0, n)
Slice0(s, n) == IF Len(s) <= n THEN s ELSE SubSeq(s, 1, n)

-----------------------------------------------------------------------------
(* simpleTranslate *)

RECURSIVE Flatten(_)
\* The concatenation of a sequence of strings, neighbours joined two by two.
Flatten(pieces) ==
  IF Len(pieces) = 0 THEN <<>>
  ELSE IF Len(pieces) = 1 THEN pieces[1]
  ELSE Flatten([i \in 1..((Len(pieces) + 1) \div 2) |->
                  IF 2 * i <= Len(pieces) THEN pieces[2 * i - 1] \o pieces[2 * i]
                  ELSE pieces[2 * i - 1]])

\* The keys and values of GLOSSARY, the values written in pieces.
GlossaryEntries ==
  { <<"incident", <<"incident">>>>,
    <<"outage", <<"panne">>>>,
    <<"degraded", <<"d", EAcute, "grad", EAcute, "e">>>>,
    <<"performance", <<"performance">>>>,
    <<"user", <<"utilisateur">>>>,
    <<"users", <<"utilisateurs">>>>,
    <<"customer", <<"client">>>>,
    <<"customers", <<"clients">>>>,
    <<"error", <<"erreur">>>>,
    <<"failure", <<"d", EAcute, "faillance">>>>,
    <<"login", <<"connexion">>>>,
    <<"authentication", <<"authentification">>>>,
    <<"authorization", <<"autorisation">>>>,
    <<"payment", <<"paiement">>>>,
    <<"database", <<"base de donn", EAcute, "es">>>>,
    <<"server", <<"serveur">>>>,
    <<"network", <<"r", EAcute, "seau">>>>,
    <<"latency", <<"latence">>>>,
    <<"timeout", <<"d", EAcute, "passement de d", EAcute, "lai">>>>,
    <<"retry", <<"r", EAcute, "essai">>>>,
    <<"restarted", <<"red", EAcute, "marr", EAcute>>>>,
    <<"restart", <<"red", EAcute, "marrer">>>>,
    <<"cache", <<"cache">>>>,
    <<"cleared", <<"vid", EAcute>>>>,
    <<"escalated", <<"escalad", EAcute>>>>,
    <<"escalation", <<"escalade">>>>,
    <<"root", <<"racine">>>>,
    <<"cause", <<"cause">>>>,
    <<"suspected", <<"suspect", EAcute, "e">>>>,
    <<"temporary", <<"temporaire">>>>,
    <<"workaround", <<"solution de contournement">>>>,
    <<"fix", <<"correctif">>>>,
    <<"deployed", <<"d", EAcute, "ploy", EAcute>>>>,
    <<"monitoring", <<"surveillance">>>>,
    <<"logs", <<"journaux">>>>,
    <<"alert", <<"alerte">>>>,
    <<"alerts", <<"alertes">>>>,
    <<"region", <<"r", EAcute, "gion">>>>,
    <<"europe", <<"Europe">>>>,
    <<"us", <<EAcuteCap, "tats-Unis">>>>,
    <<"production", <<"production">>>>,
    <<"staging", <<"pr", EAcute, "-production">>>>,
    <<"severity", <<"s", EAcute, "v", EAcute, "rit", EAcute>>>>,
    <<"high", <<EAcute, "lev", EAcute, "e">>>>,
    <<"medium", <<"moyenne">>>>,
    <<"low", <<"faible">>>> }

GLOSSARY ==
  [w \in {S(e[1]) : e \in GlossaryEntries} |->
     T((CHOOSE e \in GlossaryEntries : S(e[1]) = w)[2])]

\* GLOSSARY is an object literal: a key it does not own is looked up on
\* Object.prototype, and of the names there only "constructor" is made of
\* lower-case letters. replace() turns the function found into this text.
InheritedConstructor == S("function Object() { [native code] }")

\* GLOSSARY[m.toLowerCase()] ?? m
glossaryLookup(m) ==
  LET key == [k \in 1..Len(m) |-> toLowerCase(m[k])]
  IN IF key \in DOMAIN GLOSSARY THEN GLOSSARY[key]
     ELSE IF key = S("constructor") THEN InheritedConstructor
     ELSE m

\* [A-Za-z']
IsWordLetter(c) == c \in UpperSet \/ c \in LowerSet \/ c = "'"

\* \b holds between s[i - 1] and s[i].
WordBoundary(s, i) ==
  LET before == i - 1 >= 1 /\ IsWordChar(s[i - 1])
      after == i <= Len(s) /\ IsWordChar(s[i])
  IN before # after

\* The matches <<first, last>> of /\b([A-Za-z']+)\b/g in s. A maximal run of
\* [A-Za-z'] holds at most one match: it starts at the first boundary of the
\* run and, the + giving characters back, ends before its last boundary.
wordMatches(s) ==
  LET n == Len(s)
      runStarts == {a \in 1..n : IsWordLetter(s[a]) /\ (a = 1 \/ ~IsWordLetter(s[a - 1]))}
      runEnd(a) == Min({b \in a..n : b = n \/ ~IsWordLetter(s[b + 1])})
      firsts(a) == {i \in a..runEnd(a) : WordBoundary(s, i)}
      lasts(a) == {e \in a..runEnd(a) : WordBoundary(s, e + 1)}
  IN {<<Min(firsts(a)), Max(lasts(a))>> :
        a \in {x \in runStarts : /\ firsts(x) # {}
                                 /\ lasts(x) # {}
                                 /\ Min(firsts(x)) <= Max(lasts(x))}}

\* text.replace(/\b([A-Za-z']+)\b/g, (m) => GLOSSARY[m.toLowerCase()] ?? m)
replaceWords(s) ==
  LET ms == wordMatches(s)
      piece(k) ==
        IF \E m \in ms : m[1] = k
        THEN glossaryLookup(SubSeq(s, k, (CHOOSE m \in ms : m[1] = k)[2]))
        ELSE IF \E m \in ms : m[1] < k /\ k <= m[2] THEN <<>>
        ELSE <<s[k]>>
  IN Flatten([k \in 1..Len(s) |-> piece(k)])

\* s.replace(/\bword\b/g, by)  for a word of letters (no flag i).
replaceWord(s, word, by) ==
  LET n == Len(word)
      at == {k \in 1..(Len(s) - n + 1) :
               /\ SubSeq(s, k, k + n - 1) = word
               /\ WordBoundary(s, k)
               /\ WordBoundary(s, k + n)}
      piece(k) ==
        IF k \in at THEN by
        ELSE IF \E a \in at : a < k /\ k < a + n THEN <<>>
        ELSE <<s[k]>>
  IN IF at = {} THEN s ELSE Flatten([k \in 1..Len(s) |-> piece(k)])

DraftPrefix ==
  T(<<LeftWhiteBracket, "Brouillon ", EnDash, " traduction approximative",
      RightWhiteBracket, " ">>)

simpleTranslate(text) ==
  LET replaced == replaceWord(replaceWord(replaceWords(text), S("ETA"), S("ETA")),
                              S("SLA"), S("SLA"))
  IN DraftPrefix \o replaced

-----------------------------------------------------------------------------
(* parseInput *)

\* String.prototype.match found nothing (null).
NoMatch == <<"null">>

\* \s*[:=]\s*([^\n]+)  matched at index j: the text of group 1, or NoMatch.
\* The first \s* is followed by a character that is no space, so it takes the
\* whole run; the second \s* gives characters back until [^\n]+ has one.
ValueTail(s, j) ==
  LET a == SkipSpace(s, j)
  IN IF a > Len(s) \/ s[a] \notin {":", "="} THEN NoMatch
     ELSE LET e == SkipSpace(s, a + 1)
              starts == {k \in (a + 1)..e : k <= Len(s) /\ s[k] # "\n"}
          IN IF starts = {} THEN NoMatch
             ELSE LET st == CHOOSE k \in starts : \A m \in starts : m <= k
                  IN SubSeq(s, st, EndOfLine(s, st))

\* get's pattern  `${label}\\s*[:=]\\s*([^\\n]+)`  tried at index i, label being
\* the alternatives of the label string in order. Alternation binds weakest:
\* with label  a|b|c  the pattern is  a | b | c\s*[:=]\s*([^\n]+) , so every
\* alternative but the last stands alone, without delimiter or group. The
\* result is group 1 of the match (Undefined when the alternative that matched
\* has no group), or NoMatch.
PatternAt(s, i, label) ==
  LET n == Len(label)
  IN IF \E k \in 1..(n - 1) : StartsWithCI(s, i, label[k]) THEN Undefined
     ELSE IF StartsWithCI(s, i, label[n]) THEN ValueTail(s, i + Len(label[n]))
     ELSE NoMatch

\* The leftmost match at or after index i.
MatchFrom(s, i, label) ==
  LET hits == {k \in i..Len(s) : PatternAt(s, k, label) # NoMatch}
  IN IF hits = {} THEN NoMatch ELSE PatternAt(s, Min(hits), label)

\* (text.match(...)?.[1] || "").trim()
get(text, label) ==
  LET m == MatchFrom(text, 1, label)
      g == IF m = NoMatch THEN Undefined ELSE m
  IN Trim(IF Truthy(g) THEN g ELSE <<>>)

\* /steps?\s*[:=]([\s\S]+)/i  tried at index i: group 1, or NoMatch.
StepsAt(s, i) ==
  IF ~StartsWithCI(s, i, S("step")) THEN NoMatch
  ELSE LET j == i + 4
           tail(jj) == LET a == SkipSpace(s, jj)
                       IN IF a <= Len(s) /\ s[a] \in {":", "="} /\ a + 1 <= Len(s)
                          THEN SubSeq(s, a + 1, Len(s)) ELSE NoMatch
           withS == IF j <= Len(s) /\ toLowerCase(s[j]) = "s" THEN tail(j + 1)
                    ELSE NoMatch
       IN IF withS # NoMatch THEN withS ELSE tail(j)

\* The leftmost match of the steps pattern at or after index i.
StepsFrom(s, i) ==
  LET hits == {k \in i..Len(s) : StepsAt(s, k) # NoMatch}
  IN IF hits = {} THEN NoMatch ELSE StepsAt(s, Min(hits))

\* text.match(/steps?\s*[:=]([\s\S]+)/i)?.[1] ?? ""
stepsBlock(text) ==
  LET m == StepsFrom(text, 1) IN IF m = NoMatch THEN <<>> ELSE m

\* The separators of  split(/\n|;|•|-/).
StepSeparators == {"\n", ";", Bullet, "-"}

\* String.prototype.split on a pattern that matches one character of seps:
\* the fragments between consecutive separators, empty ones included.
Split(s, seps) ==
  LET cuts == {i \in 1..Len(s) : s[i] \in seps}
      cut(k) == IF k = 0 THEN 0
                ELSE IF k > Cardinality(cuts) THEN Len(s) + 1
                ELSE CHOOSE c \in cuts : Cardinality({d \in cuts : d < c}) = k - 1
  IN [k \in 1..(Cardinality(cuts) + 1) |-> SubSeq(s, cut(k - 1) + 1, cut(k) - 1)]

\* The index after the longest run of \d that starts at i  (greedy \d+).
SkipDigits(s, i) ==
  IF i > Len(s) THEN i
  ELSE Min({k \in i..(Len(s) + 1) : k > Len(s) \/ s[k] \notin DigitChars})

\* s.replace(/^\s*(\d+\.|-)/, "")
StripMarker(s) ==
  LET a == SkipSpace(s, 1)
      d == SkipDigits(s, a)
  IN IF d > a /\ d <= Len(s) /\ s[d] = "." THEN SubSeq(s, d + 1, Len(s))
     ELSE IF a <= Len(s) /\ s[a] = "-" THEN SubSeq(s, a + 1, Len(s))
     ELSE s

\* .split(...).map((s) => s.replace(...).trim()).filter(Boolean)
stepsOf(block) ==
  LET frags == Split(block, StepSeparators)
      mapped == [k \in 1..Len(frags) |-> Trim(StripMarker(frags[k]))]
  IN FilterBoolean(mapped)

\* The label strings of parseInput, split at | as the pattern parser does.
AppLabel == <<S("app"), S("application"), S("service"), S("system")>>
EnvLabel == <<S("env"), S("environment")>>
ImpactLabel == <<S("impact")>>
UrgencyLabel == <<S("urgency"), S("priority"), S("prio"), S("severity")>>
ErrorLabel == <<S("error"), S("err"), S("code")>>
WhenLabel == <<S("when"), S("since"), S("time"), S("started")>>
RegionLabel == <<S("region"), S("location")>>
UserLabel == <<S("user"), S("requester"), S("caller")>>
TicketLabel == <<S("ticket"), S("ref"), S("id")>>

\* The scalar fields of Parsed and the label string parseInput gives each.
ScalarFields ==
  {"app", "env", "impact", "urgency", "error", "when", "region", "user", "ticket"}

LabelOf ==
  [app |-> AppLabel, env |-> EnvLabel, impact |-> ImpactLabel,
   urgency |-> UrgencyLabel, error |-> ErrorLabel, when |-> WhenLabel,
   region |-> RegionLabel, user |-> UserLabel, ticket |-> TicketLabel]

parseInput(raw) ==
  LET text == Trim(raw)
  IN [f \in ScalarFields \cup {"summary", "steps"} |->
        IF f = "summary" THEN text
        ELSE IF f = "steps" THEN stepsOf(stepsBlock(text))
        ELSE get(text, LabelOf[f])]

-----------------------------------------------------------------------------
(* buildFrenchTemplates *)

RECURSIVE ToDecimal(_)
\* Number to string, as a template literal does for  ${i + 1}.
ToDecimal(n) ==
  LET d == <<"0", "1", "2", "3", "4", "5", "6", "7", "8", "9">>
  IN IF n < 10 THEN <<d[n + 1]>> ELSE ToDecimal(n \div 10) \o <<d[(n % 10) + 1]>>

\* new Date().toLocaleString("fr-FR") when the clock reads t seconds past
\* 04/11/2026 08:46:00 (t < 60).
toLocaleString(t) ==
  S("04/11/2026 08:46:") \o (IF t < 10 THEN <<"0">> ELSE <<>>) \o ToDecimal(t)

\* slice(0, 120) of the title.
TitleMax == 120

TitleFallback ==
  T(<<"Incident ", EnDash, " d", EAcute, "tails ", AGrave, " pr", EAcute, "ciser">>)

AppPlaceholder == T(<<"application non pr", EAcute, "cis", EAcute, "e">>)

NoStepsLine == T(<<"- Aucune ", EAcute, "tape fournie.">>)

\* cond ? text : null
Opt(cond, text) == IF cond THEN text ELSE Undefined

\* The title without its cut to 120 characters.
titreUncut(p) ==
  Join(FilterBoolean(<<
         Opt(Truthy(p.app), p.app \o S(":")),
         Opt(Truthy(p.error), p.error),
         Opt(Truthy(p.impact), T(<<EnDash, " impact ">>) \o p.impact)>>),
       S(" "))

titreOf(p) ==
  Slice0(Join(FilterBoolean(<<
           Opt(Truthy(p.app), p.app \o S(":")),
           Opt(Truthy(p.error), p.error),
           Opt(Truthy(p.impact), T(<<EnDash, " impact ">>) \o p.impact)>>),
         S(" ")),
         TitleMax)

\* The first line of the description;  p.app ?? "application non précisée".
contextLine(p) ==
  S("Contexte: ")
  \o (IF p.app # Undefined THEN p.app ELSE AppPlaceholder)
  \o (IF Truthy(p.env) THEN S(" (env: ") \o p.env \o S(")") ELSE <<>>)
  \o S(".")

descriptionLines(p) ==
  FilterBoolean(<<
    contextLine(p),
    Opt(Truthy(p.when), T(<<"D", EAcute, "but observ", EAcute, ": ">>) \o p.when \o S(".")),
    Opt(Truthy(p.region), T(<<"Zone concern", EAcute, "e: ">>) \o p.region \o S(".")),
    Opt(Truthy(p.impact), T(<<"Impact d", EAcute, "clar", EAcute, ": ">>) \o p.impact \o S(".")),
    Opt(Truthy(p.urgency),
        T(<<"Priorit", EAcute, "/S", EAcute, "v", EAcute, "rit", EAcute, ": ">>)
        \o p.urgency \o S(".")),
    Opt(Truthy(p.error), T(<<"Sympt", OCirc, "mes/erreur: ">>) \o p.error \o S("."))>>)

descriptionOf(p) == Join(descriptionLines(p), S("\n"))

\* p.steps.map((s, i) => `- Étape ${i + 1}: ${s}`)
stepLines(p) ==
  [i \in 1..Len(p.steps) |->
     T(<<"- ", EAcuteCap, "tape ">>) \o ToDecimal(i) \o S(": ") \o p.steps[i]]

\* The step lines without the line that stands for an empty list.
stepsTextNoFallback(p) == Join(stepLines(p), S("\n"))

\* The text under "Actions realisees:".
stepsText(p) ==
  IF p.steps # Undefined /\ Len(p.steps) # 0
  THEN Join(stepLines(p), S("\n"))
  ELSE NoStepsLine

ActionsHeader == T(<<"Actions r", EAcute, "alis", EAcute, "es:">>)

workNotesBlocks(p, ts) ==
  FilterBoolean(<<
    S("[") \o ts \o S("] Prise en charge de l'incident."),
    Opt(Truthy(p.user), S("Appelant: ") \o p.user \o S(".")),
    descriptionOf(p),
    ActionsHeader \o S("\n") \o stepsText(p),
    T(<<"Prochaines actions: analyse des journaux, corr", EAcute,
        "lation des alertes, v", EAcute, "rification d", EAcute, "pendances.">>),
    S("Surveillance continue en place.")>>)

workNotesOf(p, ts) == Join(workNotesBlocks(p, ts), S("\n\n"))

userCommentLines(p) ==
  LET err == IF Truthy(p.error) THEN S(" (erreur: ") \o p.error \o S(")") ELSE <<>>
  IN FilterBoolean(<<
       S("Bonjour,"),
       IF Truthy(p.app)
       THEN S("Nous investiguons actuellement un souci affectant ") \o p.app \o err \o S(".")
       ELSE T(<<"Nous investiguons actuellement le souci signal", EAcute>>) \o err \o S("."),
       Opt(Truthy(p.impact), T(<<"Impact d", EAcute, "clar", EAcute, ": ">>) \o p.impact \o S(".")),
       T(<<"Nos ", EAcute, "quipes sont mobilis", EAcute, "es. Nous vous tiendrons inform",
           EAcute, " de l'avancement.">>),
       S("Merci de votre patience.")>>)

\* A join of the user comment with the newline alone.
NewlineSeparator == S("\n")

\* The separator of the user comment's join.
UserCommentSeparator == S(" \n")

userCommentOf(p) == Join(userCommentLines(p), UserCommentSeparator)

buildFrenchTemplates(p, ts) ==
  LET titre == titreOf(p)
  IN [titre |-> IF Truthy(titre) THEN titre ELSE TitleFallback,
      description |-> descriptionOf(p),
      workNotes |-> workNotesOf(p, ts),
      userComment |-> userCommentOf(p)]

-----------------------------------------------------------------------------
(* Inputs *)

\* The length of the long field value of the inputs.
LongLen == 125
\* The greatest number of lines of a composed input.
MaxLines == 2
\* The greatest reading of the clock, in seconds.
MaxNow == 1
\* The greatest number of clicks on "Generate French notes".
MaxRuns == 1
\* The greatest number of edits of the output text areas.
MaxEdits == 1
\* The greatest number of remote calls answered by anything but a translation.
MaxFaults == 1

LongValue == [i \in 1..LongLen |-> "x"]

\* The example of the specification's testable properties.
SpecExample ==
  S("app: Checkout\nerror: HTTP 500\nimpact: high\nsteps: restart pod; clear cache")

\* A steps block of numbered lines, followed by a label.
NumberedExample ==
  S("service: Billing\nsteps: 1. Restart service\n2. Clear cache\nseverity = P1")

InputLines ==
  { S(""),
    S("app: Checkout"),
    S("impact: high"),
    S("System = Billing "),
    S("code:E42"),
    S("users see an error"),
    S("Impact : ") \o LongValue,
    S("steps: 1. Restart service"),
    S("2. Clear cache"),
    S("steps: 1.5 GB freed"),
    S(" Steps: ; - "),
    S("location: EU  ") }

RECURSIVE Composed(_)
\* The inputs of n lines.
Composed(n) ==
  IF n = 0 THEN {<<>>}
  ELSE IF n = 1 THEN InputLines
  ELSE {a \o S("\n") \o b : a \in Composed(n - 1), b \in InputLines}

CoreInputs ==
  UNION {Composed(n) : n \in 0..MaxLines} \cup {SpecExample, NumberedExample}

-----------------------------------------------------------------------------
(* The state of the component *)

\* No value yet (the pipeline has not reached this stage).
Pending == <<"pending">>

\* The state of a promise.
NotSettled == [status |-> "pending", value |-> <<>>]
Fulfilled(v) == [status |-> "fulfilled", value |-> v]
Rejected == [status |-> "rejected", value |-> <<>>]

NoTemplates == [titre |-> <<>>, description |-> <<>>, workNotes |-> <<>>, userComment |-> <<>>]

\* No generate() is running. Of a run: pc is the ensureFrench call it awaits
\* (1..4), fr, provider and endpoint are what its closure captured, t the
\* results so far, net where the current call stands ("fetch", "text" and
\* "json" are the awaits of libreTranslate, "microtask" a settled promise whose
\* continuation has not run yet), settled the current call's promise; how, of
\* and id record for the properties how the call was answered, the prompt the
\* run started from and the number of the run.
RunIdle ==
  [pc |-> 0, fr |-> NoTemplates, provider |-> "offline", endpoint |-> <<>>,
   t |-> <<>>, net |-> "none", settled |-> NotSettled, how |-> "none",
   of |-> <<>>, id |-> 0]

\* Where the value of an output state came from: nowhere yet ("none"), the
\* user's typing or a reset ("user"), or run id started from prompt of ("run").
NoSource == [kind |-> "none", of |-> <<>>, id |-> 0]
Outputs == {"title", "desc", "work", "user"}

UiInitial ==
  /\ provider = "offline"
  /\ endpoint = <<>>
  /\ loading = FALSE
  /\ frTitle = <<>>
  /\ frDesc = <<>>
  /\ frWork = <<>>
  /\ frUser = <<>>
  /\ run = RunIdle
  /\ src = [o \in Outputs |-> NoSource]
  /\ used = [runs |-> 0, edits |-> 0, faults |-> 0]

uiVars == <<provider, endpoint, loading, frTitle, frDesc, frWork, frUser, run, src, used>>

-----------------------------------------------------------------------------
(* The pipeline  raw text -> parseInput -> buildFrenchTemplates  on its own *)

CoreInit ==
  /\ input \in CoreInputs
  /\ stage = "raw"
  /\ parsed = Pending
  /\ fr = Pending
  /\ now = 0
  /\ UiInitial

Extract ==
  /\ stage = "raw"
  /\ parsed' = parseInput(input)
  /\ stage' = "parsed"
  /\ UNCHANGED <<input, fr, now, uiVars>>

Render ==
  /\ stage = "parsed"
  /\ \E t \in 0..MaxNow :
       /\ now' = t
       /\ fr' = buildFrenchTemplates(parsed, toLocaleString(t))
  /\ stage' = "rendered"
  /\ UNCHANGED <<input, parsed, uiVars>>

CoreNext == Extract \/ Render

CoreSpec == CoreInit /\ [][CoreNext]_vars

-----------------------------------------------------------------------------
(* The component ServiceNowNoteGenerator *)

\* The prompts typed in the component.
UiInputs == {<<>>, S("code: E42\nimpact: high\nsteps: restart pod")}

\* The endpoints typed in the component.
Endpoints == {<<>>, S("https://lt.example/")}

\* What the user types in an output text area.
TypedValues == {<<>>, S("Saisie")}

\* What a server answers as translatedText.
RemoteText(text) == S("[fr] ") \o text

\* useMemo(() => parseInput(input), [input]), over the prompts typed.
parsedMemo == [r \in UiInputs |-> parseInput(r)]

\* useMemo(() => buildFrenchTemplates(parsed), [parsed]), over the prompts
\* typed. The component's renders all read the clock at its first reading; the
\* pipeline above draws the readings.
frMemo == [r \in UiInputs |-> buildFrenchTemplates(parsedMemo[r], toLocaleString(0))]

\* The texts generate() can hand to ensureFrench.
UiTexts ==
  {frMemo[r][k] : r \in UiInputs, k \in {"titre", "description", "workNotes", "userComment"}}

\* simpleTranslate, tabulated over those texts.
simpleTranslateTable == [x \in UiTexts |-> simpleTranslate(x)]

Init ==
  /\ input = <<>>
  /\ stage = "rendered"
  /\ now = 0
  /\ parsed = parsedMemo[<<>>]
  /\ fr = frMemo[<<>>]
  /\ UiInitial

\* A settled promise's reactions run before the browser handles another event.
NoMicrotask == run.net # "microtask"

\* The prompt's onChange, and the render that follows: both memos are stale.
SetInput(r) ==
  /\ NoMicrotask
  /\ r # input
  /\ input' = r
  /\ parsed' = parsedMemo[r]
  /\ fr' = frMemo[r]
  /\ UNCHANGED <<stage, now, provider, endpoint, loading,
                 frTitle, frDesc, frWork, frUser, run, src, used>>

SetProvider(p) ==
  /\ NoMicrotask
  /\ p # provider
  /\ provider' = p
  /\ UNCHANGED <<input, parsed, fr, stage, now, endpoint, loading,
                 frTitle, frDesc, frWork, frUser, run, src, used>>

\* The endpoint field is rendered only while the provider is "libre".
SetEndpoint(e) ==
  /\ NoMicrotask
  /\ provider = "libre"
  /\ e # endpoint
  /\ endpoint' = e
  /\ UNCHANGED <<input, parsed, fr, stage, now, provider, loading,
                 frTitle, frDesc, frWork, frUser, run, src, used>>

\* The text the k-th ensureFrench call of generate() is given.
TextOf(f, k) ==
  CASE k = 1 -> f.titre
    [] k = 2 -> f.description
    [] k = 3 -> f.workNotes
    [] k = 4 -> f.userComment

\* A catch block that would propagate the error.
libreRethrow(text) == Rejected

\* libreTranslate's catch block.
libreCatch(text) == Fulfilled(simpleTranslateTable[text])

\* data?.translatedText ?? text
libreResult(translatedText, text) ==
  Fulfilled(IF translatedText # Undefined THEN translatedText ELSE text)

\* ensureFrench(text, provider, endpoint) is called by run r for its call pc:
\* the run as the call leaves it when it returns its promise.
ensureFrench(r) ==
  LET text == TextOf(r.fr, r.pc)
  IN IF text = <<>>
     THEN [r EXCEPT !.net = "microtask", !.settled = Fulfilled(<<>>), !.how = "empty"]
     ELSE IF r.provider = "libre" /\ r.endpoint # <<>>
     THEN [r EXCEPT !.net = "fetch", !.settled = NotSettled, !.how = "remote"]
     ELSE [r EXCEPT !.net = "microtask", !.settled = Fulfilled(simpleTranslateTable[text]),
                    !.how = "offline"]

\* The click on "Generate French notes" (disabled={loading || !input}), up to
\* the first await.
Generate ==
  /\ NoMicrotask
  /\ ~loading
  /\ input # <<>>
  /\ used.runs < MaxRuns
  /\ loading' = TRUE
  /\ used' = [used EXCEPT !.runs = @ + 1]
  /\ run' = ensureFrench([RunIdle EXCEPT !.pc = 1, !.fr = fr, !.provider = provider,
                                         !.endpoint = endpoint, !.of = input,
                                         !.id = used.runs + 1])
  /\ UNCHANGED <<input, parsed, fr, stage, now, provider, endpoint,
                 frTitle, frDesc, frWork, frUser, src>>

\* fetch() rejects: the catch block answers.
FetchFails ==
  /\ run.net = "fetch"
  /\ used.faults < MaxFaults
  /\ run' = [run EXCEPT !.net = "microtask", !.how = "failed",
                        !.settled = libreCatch(TextOf(run.fr, run.pc))]
  /\ used' = [used EXCEPT !.faults = @ + 1]
  /\ UNCHANGED <<input, parsed, fr, stage, now, provider, endpoint, loading,
                 frTitle, frDesc, frWork, frUser, src>>

\* fetch() resolves with a response: res.ok or not.
FetchResponds(ok) ==
  /\ run.net = "fetch"
  /\ ok \/ used.faults < MaxFaults
  /\ run' = [run EXCEPT !.net = IF ok THEN "json" ELSE "text"]
  /\ used' = [used EXCEPT !.faults = IF ok THEN @ ELSE @ + 1]
  /\ UNCHANGED <<input, parsed, fr, stage, now, provider, endpoint, loading,
                 frTitle, frDesc, frWork, frUser, src>>

\* await res.text() of a response that is not ok: read or not, an Error is
\* thrown and the catch block answers.
ErrorBodySettles ==
  /\ run.net = "text"
  /\ run' = [run EXCEPT !.net = "microtask", !.how = "failed",
                        !.settled = libreCatch(TextOf(run.fr, run.pc))]
  /\ UNCHANGED <<input, parsed, fr, stage, now, provider, endpoint, loading,
                 frTitle, frDesc, frWork, frUser, src, used>>

\* await res.json() rejects (the body cannot be read or parsed).
JsonFails ==
  /\ run.net = "json"
  /\ used.faults < MaxFaults
  /\ run' = [run EXCEPT !.net = "microtask", !.how = "failed",
                        !.settled = libreCatch(TextOf(run.fr, run.pc))]
  /\ used' = [used EXCEPT !.faults = @ + 1]
  /\ UNCHANGED <<input, parsed, fr, stage, now, provider, endpoint, loading,
                 frTitle, frDesc, frWork, frUser, src>>

\* await res.json() resolves, with or without translatedText.
JsonArrives(present) ==
  /\ run.net = "json"
  /\ present \/ used.faults < MaxFaults
  /\ LET text == TextOf(run.fr, run.pc)
     IN run' = [run EXCEPT !.net = "microtask", !.how = "translated",
                           !.settled = libreResult(IF present THEN RemoteText(text)
                                                   ELSE Undefined, text)]
  /\ used' = [used EXCEPT !.faults = IF present THEN @ ELSE @ + 1]
  /\ UNCHANGED <<input, parsed, fr, stage, now, provider, endpoint, loading,
                 frTitle, frDesc, frWork, frUser, src>>

\* A generate() that would call each setter as soon as its own await resumes.
ResumePiecemeal ==
  /\ run.net = "microtask"
  /\ IF run.settled.status = "rejected"
     THEN /\ loading' = FALSE
          /\ run' = RunIdle
          /\ UNCHANGED <<frTitle, frDesc, frWork, frUser, src>>
     ELSE LET v == run.settled.value
              o == <<"title", "desc", "work", "user">>[run.pc]
          IN /\ frTitle' = IF o = "title" THEN v ELSE frTitle
             /\ frDesc' = IF o = "desc" THEN v ELSE frDesc
             /\ frWork' = IF o = "work" THEN v ELSE frWork
             /\ frUser' = IF o = "user" THEN v ELSE frUser
             /\ src' = [src EXCEPT ![o] = [kind |-> "run", of |-> run.of, id |-> run.id]]
             /\ IF run.pc < 4
                THEN /\ run' = ensureFrench([run EXCEPT !.pc = @ + 1, !.t = Append(@, v)])
                     /\ UNCHANGED loading
                ELSE /\ loading' = FALSE
                     /\ run' = RunIdle
  /\ UNCHANGED <<input, parsed, fr, stage, now, provider, endpoint, used>>

\* generate() resumes after an await: the next call, or the four setters,
\* and the finally block. A rejected await skips to the finally block.
Resume ==
  /\ run.net = "microtask"
  /\ IF run.settled.status = "rejected"
     THEN /\ loading' = FALSE
          /\ run' = RunIdle
          /\ UNCHANGED <<frTitle, frDesc, frWork, frUser, src>>
     ELSE LET t == Append(run.t, run.settled.value)
          IN IF run.pc < 4
             THEN /\ run' = ensureFrench([run EXCEPT !.pc = @ + 1, !.t = t])
                  /\ UNCHANGED <<loading, frTitle, frDesc, frWork, frUser, src>>
             ELSE /\ frTitle' = t[1]
                  /\ frDesc' = t[2]
                  /\ frWork' = t[3]
                  /\ frUser' = t[4]
                  /\ src' = [o \in Outputs |-> [kind |-> "run", of |-> run.of, id |-> run.id]]
                  /\ loading' = FALSE
                  /\ run' = RunIdle
  /\ UNCHANGED <<input, parsed, fr, stage, now, provider, endpoint, used>>

\* The value a text area shows and the export carries:  frX || fr.X
Surfaced(o) ==
  CASE o = "title" -> IF Truthy(frTitle) THEN frTitle ELSE fr.titre
    [] o = "desc" -> IF Truthy(frDesc) THEN frDesc ELSE fr.description
    [] o = "work" -> IF Truthy(frWork) THEN frWork ELSE fr.workNotes
    [] o = "user" -> IF Truthy(frUser) THEN frUser ELSE fr.userComment

\* The onChange of an output text area.
EditOutput(o, v) ==
  /\ NoMicrotask
  /\ used.edits < MaxEdits
  /\ v # Surfaced(o)
  /\ frTitle' = IF o = "title" THEN v ELSE frTitle
  /\ frDesc' = IF o = "desc" THEN v ELSE frDesc
  /\ frWork' = IF o = "work" THEN v ELSE frWork
  /\ frUser' = IF o = "user" THEN v ELSE frUser
  /\ src' = [src EXCEPT ![o] = [kind |-> "user", of |-> <<>>, id |-> 0]]
  /\ used' = [used EXCEPT !.edits = @ + 1]
  /\ UNCHANGED <<input, parsed, fr, stage, now, provider, endpoint, loading, run>>

\* The click on "Reset outputs".
ResetOutputs ==
  /\ NoMicrotask
  /\ frTitle' = <<>>
  /\ frDesc' = <<>>
  /\ frWork' = <<>>
  /\ frUser' = <<>>
  /\ src' = [o \in Outputs |-> NoSource]
  /\ UNCHANGED <<input, parsed, fr, stage, now, provider, endpoint, loading, run, used>>

Next ==
  \/ \E r \in UiInputs : SetInput(r)
  \/ \E p \in {"offline", "libre"} : SetProvider(p)
  \/ \E e \in Endpoints : SetEndpoint(e)
  \/ Generate
  \/ FetchFails
  \/ \E ok \in BOOLEAN : FetchResponds(ok)
  \/ ErrorBodySettles
  \/ JsonFails
  \/ \E present \in BOOLEAN : JsonArrives(present)
  \/ Resume
  \/ \E o \in Outputs, v \in TypedValues : EditOutput(o, v)
  \/ ResetOutputs

Spec == Init /\ [][Next]_vars

\* An await of libreTranslate settles: fetch, res.text() or res.json().
NetworkSettles ==
  \/ FetchFails
  \/ \E ok \in BOOLEAN : FetchResponds(ok)
  \/ ErrorBodySettles
  \/ JsonFails
  \/ \E present \in BOOLEAN : JsonArrives(present)

\* The component with its scheduling: the event loop runs the continuation of
\* a settled promise, and the browser settles every request it has sent.
FairSpec == Spec /\ WF_vars(Resume) /\ WF_vars(NetworkSettles)

-----------------------------------------------------------------------------
(* What the specification says of the extraction *)

\* A label followed by its delimiter and value at index i, whichever synonym
\* it is:  (?:a|b|c)\s*[:=]\s*([^\n]+) . The value, or NoMatch.
LabelValueAt(s, i, label) ==
  LET ks == {k \in 1..Len(label) :
               /\ StartsWithCI(s, i, label[k])
               /\ ValueTail(s, i + Len(label[k])) # NoMatch}
  IN IF ks = {} THEN NoMatch ELSE ValueTail(s, i + Len(label[Min(ks)]))

\* The trimmed value of the first label pattern of the text, or NoMatch.
FirstLabelValue(s, label) ==
  LET hits == {i \in 1..Len(s) : LabelValueAt(s, i, label) # NoMatch}
  IN IF hits = {} THEN NoMatch ELSE Trim(LabelValueAt(s, Min(hits), label))

\* The text has no label pattern at all, steps included.
NoRecognizedLabel(raw) ==
  /\ \A f \in ScalarFields : FirstLabelValue(Trim(raw), LabelOf[f]) = NoMatch
  /\ StepsFrom(Trim(raw), 1) = NoMatch

\* s begins with prefix.
StartsWith(s, prefix) ==
  Len(s) >= Len(prefix) /\ SubSeq(s, 1, Len(prefix)) = prefix

\* The lines of a text.
LinesOf(s) == Split(s, {"\n"})

\* C1: every scalar field is the trimmed value that follows the first
\* occurrence of any of its synonym labels with ':' or '='; and the example
\* input yields application Checkout, errorCode HTTP 500, impact high, the two
\* steps, and the title "Checkout: HTTP 500 - impact high" (with an en dash).
C1_FirstSynonymValue ==
  /\ stage # "raw" =>
       \A f \in ScalarFields :
         LET v == FirstLabelValue(Trim(input), LabelOf[f])
         IN v # NoMatch => parsed[f] = v
  /\ (stage = "rendered" /\ input = SpecExample) =>
       /\ parsed.app = S("Checkout")
       /\ parsed.error = S("HTTP 500")
       /\ parsed.impact = S("high")
       /\ parsed.steps = <<S("restart pod"), S("clear cache")>>
       /\ fr.titre = T(<<"Checkout: HTTP 500 ", EnDash, " impact high">>)

\* C2: a scalar field is present if and only if its label pattern occurs in
\* the input, and an absent field is undefined, never the empty string.
C2_PresentIffLabelled ==
  stage # "raw" =>
    \A f \in ScalarFields :
      /\ (parsed[f] # Undefined) <=> (FirstLabelValue(Trim(input), LabelOf[f]) # NoMatch)
      /\ parsed[f] # <<>>

\* C3: the first line of the description is the context line, naming the
\* application when one was extracted and the placeholder "application non
\* precisee" otherwise, never an empty application name.
C3_ContextLinePlaceholder ==
  stage = "rendered" =>
    LET line == LinesOf(fr.description)[1]
        name == IF Truthy(parsed.app) THEN parsed.app ELSE AppPlaceholder
    IN StartsWith(line, S("Contexte: ") \o name)

\* The structure of the user comment: greeting, investigation sentence, the
\* impact line exactly when impact is present, reassurance, closing.
UserCommentShape(lines) ==
  /\ Len(lines) = (IF Truthy(parsed.impact) THEN 5 ELSE 4)
  /\ lines[1] = S("Bonjour,")
  /\ StartsWith(lines[2], S("Nous investiguons actuellement "))
  /\ Truthy(parsed.impact) =>
       lines[3] = T(<<"Impact d", EAcute, "clar", EAcute, ": ">>) \o parsed.impact \o S(".")
  /\ StartsWith(lines[Len(lines) - 1], T(<<"Nos ", EAcute, "quipes sont mobilis">>))
  /\ lines[Len(lines)] = S("Merci de votre patience.")

\* C4, as claimed: the user comment is its included lines joined with one
\* newline between consecutive lines and no other separator character, the
\* impact line being there only if impact is present.
C4_JoinedByNewlineOnly ==
  stage = "rendered" =>
    /\ UserCommentShape(LinesOf(fr.userComment))
    /\ LinesOf(fr.userComment) = userCommentLines(parsed)

\* C4, amended: the user comment is its included lines joined with a space
\* followed by one newline, so that every line but the last ends with one
\* added space; the impact line is there only if impact is present.
C4_JoinedBySpaceNewline ==
  stage = "rendered" =>
    LET lines == userCommentLines(parsed)
        parts == LinesOf(fr.userComment)
    IN /\ UserCommentShape(lines)
       /\ Len(parts) = Len(lines)
       /\ \A k \in 1..Len(lines) :
            parts[k] = lines[k] \o (IF k < Len(lines) THEN S(" ") ELSE <<>>)

C4_Witness ==
  /\ stage = "rendered"
  /\ Truthy(parsed.impact)
  /\ Truthy(parsed.app)
  /\ Len(LinesOf(fr.userComment)) = 5

\* C5: the title has at most 120 characters, for the fallback sentence and
\* for field values of any length.
C5_TitleAtMost120 == stage = "rendered" => Len(fr.titre) <= 120

C5_Witness ==
  /\ stage = "rendered"
  /\ Len(parsed.impact) > 120
  /\ Len(fr.titre) = 120

\* C6: an input with no recognized label yields a record whose scalar fields
\* are all absent, whose steps are empty and whose rawSummary is the trimmed
\* input, and the title is the fallback sentence.
C6_NoLabelsAllAbsent ==
  (stage = "rendered" /\ NoRecognizedLabel(input)) =>
    /\ \A f \in ScalarFields : parsed[f] = Undefined
    /\ parsed.steps = <<>>
    /\ parsed.summary = Trim(input)
    /\ fr.titre = TitleFallback

\* A fragment with only a leading marker "<digits>. " or "- " removed.
MarkerOnlyStripped(frag) ==
  LET t == Trim(frag)
      d == SkipDigits(t, 1)
  IN IF d > 1 /\ d + 1 <= Len(t) /\ t[d] = "." /\ t[d + 1] = " "
     THEN Trim(SubSeq(t, d + 2, Len(t)))
     ELSE IF StartsWith(t, S("- ")) THEN Trim(SubSeq(t, 3, Len(t)))
     ELSE t

\* C7: with a step/steps label, steps are the trimmed non-empty fragments of
\* everything after the first such label, split on newline, ';', bullet and
\* '-', each with only a leading "<digits>. " or "- " removed; and the block
\* "1. Restart service\n2. Clear cache" gives the two steps without markers.
C7_OnlyMarkersRemoved ==
  /\ (stage # "raw" /\ StepsFrom(Trim(input), 1) # NoMatch) =>
       LET frags == Split(StepsFrom(Trim(input), 1), StepSeparators)
           kept == [k \in 1..Len(frags) |-> MarkerOnlyStripped(frags[k])]
       IN parsed.steps = SelectSeq(kept, Truthy)
  /\ (stage # "raw" /\ input = S("steps: 1. Restart service\n2. Clear cache")) =>
       parsed.steps = <<S("Restart service"), S("Clear cache")>>

\* The lines between the "Actions realisees:" header of the work notes and
\* the blank line that ends its block.
ActionsBlock(notes) ==
  LET lines == LinesOf(notes)
      h == Min({i \in 1..Len(lines) : lines[i] = ActionsHeader})
      e == Min({i \in (h + 1)..Len(lines) : lines[i] = <<>>})
  IN SubSeq(lines, h + 1, e - 1)

\* C8: the actions block of the work notes has one line per extracted step,
\* in order, "- Etape <index from 1>: <text>" with a text that is not empty;
\* with no step it is the one line "- Aucune etape fournie.".
C8_ActionsBlock ==
  stage = "rendered" =>
    LET block == ActionsBlock(fr.workNotes)
    IN IF parsed.steps = <<>>
       THEN block = <<NoStepsLine>>
       ELSE /\ Len(block) = Len(parsed.steps)
            /\ \A i \in 1..Len(block) :
                 /\ parsed.steps[i] # <<>>
                 /\ block[i] = T(<<"- ", EAcuteCap, "tape ">>) \o ToDecimal(i)
                                 \o S(": ") \o parsed.steps[i]

C8_Witness ==
  /\ stage = "rendered"
  /\ Len(parsed.steps) >= 2
  /\ Len(ActionsBlock(fr.workNotes)) = Len(parsed.steps)

-----------------------------------------------------------------------------
(* What the specification says of the translation and of the component *)

\* C9: fallback equivalence. When the remote provider is selected with an
\* endpoint and the remote call of a text that is not empty fails (fetch
\* rejects, the status is not 2xx, or the body cannot be read), ensureFrench
\* resolves and never rejects, and its result is the one the offline path
\* gives for the same text.
C9_FallbackEquivalence ==
  run.how = "failed" =>
    /\ run.provider = "libre" /\ run.endpoint # <<>>
    /\ TextOf(run.fr, run.pc) # <<>>
    /\ run.settled.status = "fulfilled"
    /\ run.settled = ensureFrench([run EXCEPT !.provider = "offline"]).settled

C9_Witness ==
  /\ run.how = "failed"
  /\ run.pc = 3
  /\ run.settled.status = "fulfilled"
  /\ run.settled.value # TextOf(run.fr, run.pc)

\* C10: no stale computation. Whatever the interleaving of prompt changes,
\* generate() runs, edits and resets, a surfaced string (frX || fr.X) that the
\* user did not type is derived from the current prompt: what a run computed
\* from an earlier prompt is never surfaced once the prompt has changed.
C10_NoStaleSurfaced ==
  \A o \in Outputs :
    LET state == [title |-> frTitle, desc |-> frDesc, work |-> frWork, user |-> frUser]
    IN (Truthy(state[o]) /\ src[o].kind = "run") =>
         /\ Surfaced(o) = state[o]
         /\ src[o].of = input

\* The outputs whose value was written by run id.
FromRun(id) == {o \in Outputs : src[o].kind = "run" /\ src[o].id = id}

\* A run is in flight exactly while loading is true, and until its four
\* transforms have completed no output comes from it; outputs that come from
\* runs come from one run, the others having been typed by the user since.
C11_RunState ==
  /\ loading <=> run.pc # 0
  /\ run.pc # 0 => (run.pc \in 1..4 /\ Len(run.t) = run.pc - 1 /\ FromRun(run.id) = {})
  /\ \A o1, o2 \in Outputs :
       src[o1].kind = "run" => \/ src[o2] = src[o1]
                               \/ src[o2].kind = "user"

\* A run starts only when loading is false and the prompt is not empty, and
\* the step that writes an output from a run is the run's last: it writes
\* all four outputs, the results of its four transforms, and resets loading.
C11_RunStep ==
  /\ used'.runs # used.runs => (~loading /\ input # <<>> /\ loading' /\ run'.pc = 1)
  /\ (\E o \in Outputs : src'[o] # src[o] /\ src'[o].kind = "run") =>
       /\ run.pc = 4 /\ Len(run.t) = 3 /\ run.settled.status = "fulfilled"
       /\ \A o \in Outputs : src'[o] = [kind |-> "run", of |-> run.of, id |-> run.id]
       /\ <<frTitle', frDesc', frWork', frUser'>> = Append(run.t, run.settled.value)
       /\ ~loading' /\ run'.pc = 0
  /\ (run.pc # 0 /\ run'.pc = 0) => ~loading'

=============================================================================
